---- MODULE Spec2Model ----
(***************************************************************************)
(* ProjectHeader.vue: the derived view values (headerIcon, projectName,    *)
(* showSettings, homeProject, showFolders, createWorkflowButton, menu),    *)
(* the props the template binds, and the onSelect handler with its three   *)
(* effects.  The stores and the route are the component's environment and  *)
(* change under it; the computed values are functions of their current     *)
(* values.                                                                 *)
(***************************************************************************)
EXTENDS Naturals, Sequences, FiniteSets

VARIABLES
    currentProject,          \* projectsStore.currentProject (Null when unset)
    personalProject,         \* projectsStore.personalProject (Null when unset)
    branchReadOnly,          \* sourceControlStore.preferences.branchReadOnly
    isFoldersFeatureEnabled, \* settingsStore.isFoldersFeatureEnabled
    route,                   \* useRoute(): [name, params]
    calls,                   \* number of onSelect calls made so far
    selected,                \* argument of the latest onSelect call
    routerPushes,            \* router.push descriptors issued by that call
    emitted,                 \* events emitted by that call
    thrown                   \* that call ended in a TypeError

storeVars == <<currentProject, personalProject, branchReadOnly, isFoldersFeatureEnabled>>
outVars == <<calls, selected, routerPushes, emitted, thrown>>
vars == <<currentProject, personalProject, branchReadOnly, isFoldersFeatureEnabled,
          route, calls, selected, routerPushes, emitted, thrown>>

\* Number of onSelect calls explored.
MaxCalls == 2

-----------------------------------------------------------------------------
\* JavaScript values

Null == [null |-> TRUE]
Undefined == "undefined"
NoName == ""
Truthy(s) == s \notin {Undefined, NoName}

ProjectTypes == [Personal |-> "personal", Team |-> "team"]
OtherType == "other"

VIEWS == [NEW_WORKFLOW |-> "NodeViewNew",
          PROJECTS_WORKFLOWS |-> "ProjectsWorkflows",
          PROJECTS_FOLDERS |-> "ProjectsFolders",
          PROJECTS_CREDENTIALS |-> "ProjectsCredentials",
          PROJECT_SETTINGS |-> "ProjectSettings",
          HOMEPAGE |-> "Homepage"]

ACTION_TYPES == [WORKFLOW |-> "workflow", CREDENTIAL |-> "credential", FOLDER |-> "folder"]
ActionTypes == {ACTION_TYPES.WORKFLOW, ACTION_TYPES.CREDENTIAL, ACTION_TYPES.FOLDER}

-----------------------------------------------------------------------------
\* Scopes and the permissions resolver

Scope(r, o) == [resource |-> r, operation |-> o]
Resources == {"project", "workflow", "credential", "folder"}
Operations == {"create", "update"}
ScopeUniverse == {Scope("workflow", "create"), Scope("credential", "create"),
                  Scope("folder", "create"), Scope("project", "update")}
PersonalScopeSets == {{}, {Scope("workflow", "create")},
                      {Scope("workflow", "create"), Scope("credential", "create"),
                       Scope("folder", "create")}}

\* getResourcePermissions(scopes): one record of booleans per resource; a
\* missing scope list resolves like an empty one.
getResourcePermissions(scopes) ==
    LET list == IF scopes = Null THEN {} ELSE scopes.some
    IN  [r \in Resources |-> [o \in Operations |-> Scope(r, o) \in list]]

\* project?.scopes: Null for a missing project, else the scope list, boxed
scopesOf(project) == IF project = Null THEN Null ELSE [some |-> project.scopes]

-----------------------------------------------------------------------------
\* Values of the environment

NoIcon == [type |-> "none", value |-> ""]
CustomIcon == [type |-> "emoji", value |-> "rocket"]
Icon(v) == [type |-> "icon", value |-> v]

Project(id, type, name, icon, scopes) ==
    [id |-> id, type |-> type, name |-> name, icon |-> icon, scopes |-> scopes]

\* id, type, name and icon of the projects the store can hold as current
ProjectShapes ==
    { <<"pp", ProjectTypes.Personal, "Ada Lovelace", NoIcon>>,
      <<"p1", ProjectTypes.Team, "Team A", CustomIcon>>,
      <<"p1", ProjectTypes.Team, "Team A", NoIcon>>,
      <<"p1", ProjectTypes.Team, NoName, NoIcon>>,
      <<"p1", OtherType, "Shared", CustomIcon>> }

PersonalProjects ==
    { Project("pp", ProjectTypes.Personal, "Ada Lovelace", NoIcon, s) : s \in PersonalScopeSets }

Route(name, projectId, folderId) ==
    [name |-> name, params |-> [projectId |-> projectId, folderId |-> folderId]]

\* the routes the header is mounted under: project pages and the overview
\* pages, with and without a project id and a folder id
Routes ==
    { Route(VIEWS.HOMEPAGE, Undefined, Undefined),
      Route(VIEWS.HOMEPAGE, Undefined, "f1"),
      Route(VIEWS.PROJECTS_WORKFLOWS, Undefined, Undefined),
      Route(VIEWS.PROJECTS_WORKFLOWS, "p1", Undefined),
      Route(VIEWS.PROJECTS_FOLDERS, Undefined, "f1"),
      Route(VIEWS.PROJECTS_FOLDERS, "p1", "f1"),
      Route(VIEWS.PROJECT_SETTINGS, "p1", Undefined),
      Route(VIEWS.PROJECTS_CREDENTIALS, "p1", Undefined) }

NoOutput == calls = 0 /\ selected = Undefined /\ routerPushes = <<>>
            /\ emitted = <<>> /\ thrown = FALSE

Init ==
    /\ currentProject = Null
    /\ personalProject = Null
    /\ branchReadOnly = FALSE
    /\ isFoldersFeatureEnabled = FALSE
    /\ route = Route(VIEWS.HOMEPAGE, Undefined, Undefined)
    /\ NoOutput

-----------------------------------------------------------------------------
\* Computed values

i18nBaseText(key) == <<"i18n", key>>

\* headerIcon with the name test ahead of the type test
headerIcon_nameFirst ==
    IF currentProject # Null /\ Truthy(currentProject.name)
    THEN (IF currentProject.icon # NoIcon THEN currentProject.icon ELSE Icon("layer-group"))
    ELSE IF currentProject # Null /\ currentProject.type = ProjectTypes.Personal
    THEN Icon("user")
    ELSE Icon("home")

headerIcon ==
    IF currentProject # Null /\ currentProject.type = ProjectTypes.Personal
    THEN Icon("user")
    ELSE IF currentProject # Null /\ Truthy(currentProject.name)
    THEN (IF currentProject.icon # NoIcon THEN currentProject.icon ELSE Icon("layer-group"))
    ELSE Icon("home")

projectName ==
    IF currentProject = Null
    THEN i18nBaseText("projects.menu.overview")
    ELSE IF currentProject.type = ProjectTypes.Personal
    THEN i18nBaseText("projects.menu.personal")
    ELSE currentProject.name

projectPermissions == getResourcePermissions(scopesOf(currentProject)).project

\* showSettings without the project type test
showSettings_anyType ==
    /\ Truthy(route.params.projectId)
    /\ projectPermissions.update

showSettings ==
    /\ Truthy(route.params.projectId)
    /\ projectPermissions.update
    /\ currentProject # Null
    /\ currentProject.type = ProjectTypes.Team

\* homeProject preferring the personal project
homeProject_personalFirst ==
    IF personalProject # Null THEN personalProject ELSE currentProject

homeProject == IF currentProject # Null THEN currentProject ELSE personalProject

\* showFolders testing the workflow-list view only
showFolders_workflowsOnly ==
    /\ isFoldersFeatureEnabled
    /\ route.name \in {VIEWS.PROJECTS_WORKFLOWS}

showFolders ==
    /\ isFoldersFeatureEnabled
    /\ route.name \in {VIEWS.PROJECTS_WORKFLOWS, VIEWS.PROJECTS_FOLDERS}

createWorkflowButton ==
    [value |-> ACTION_TYPES.WORKFLOW,
     label |-> i18nBaseText("projects.header.create.workflow"),
     icon |-> IF branchReadOnly THEN "lock" ELSE Undefined,
     size |-> "mini",
     disabled |-> branchReadOnly
                  \/ ~getResourcePermissions(scopesOf(homeProject)).workflow.create]

\* credentialItem disabled only when both conditions hold
credentialItem_and ==
    [value |-> ACTION_TYPES.CREDENTIAL,
     label |-> i18nBaseText("projects.header.create.credential"),
     disabled |-> branchReadOnly
                  /\ ~getResourcePermissions(scopesOf(homeProject)).credential.create]

credentialItem ==
    [value |-> ACTION_TYPES.CREDENTIAL,
     label |-> i18nBaseText("projects.header.create.credential"),
     disabled |-> branchReadOnly
                  \/ ~getResourcePermissions(scopesOf(homeProject)).credential.create]

folderItem ==
    [value |-> ACTION_TYPES.FOLDER,
     label |-> i18nBaseText("projects.header.create.folder"),
     disabled |-> branchReadOnly
                  \/ ~getResourcePermissions(scopesOf(homeProject)).folder.create]

menu == IF showFolders THEN <<credentialItem, folderItem>> ELSE <<credentialItem>>

-----------------------------------------------------------------------------
\* Template bindings

\* v-if of the header actions block
headerActionsRendered == route.name # VIEWS.PROJECT_SETTINGS

\* props bound on N8nTooltip and ProjectCreateResource
tooltipProps == [disabled |-> ~branchReadOnly,
                 content |-> i18nBaseText("readOnlyEnv.cantAdd.any")]
\* createResourceProps with the disabled binding negated
createResourceProps_negated == [actions |-> menu, disabled |-> ~branchReadOnly]
createResourceProps == [actions |-> menu, disabled |-> branchReadOnly]

\* the action descriptors the template hands to its controls
presentedActions ==
    IF headerActionsRendered
    THEN {createWorkflowButton} \cup {createResourceProps.actions[i] :
                                        i \in 1..Len(createResourceProps.actions)}
    ELSE {}

-----------------------------------------------------------------------------
\* Effects of a selection

NoEffect == [pushes |-> <<>>, emits |-> <<>>, threw |-> FALSE]

\* actions with parentFolderId read from the wrong route parameter
actions_wrongParam(action, projectId) ==
    IF action = ACTION_TYPES.WORKFLOW
    THEN [NoEffect EXCEPT !.pushes =
            << [name |-> VIEWS.NEW_WORKFLOW,
                query |-> [projectId |-> projectId,
                           parentFolderId |-> route.params.projectId]] >>]
    ELSE IF action = ACTION_TYPES.CREDENTIAL
    THEN [NoEffect EXCEPT !.pushes =
            << [name |-> VIEWS.PROJECTS_CREDENTIALS,
                params |-> [projectId |-> projectId, credentialId |-> "create"]] >>]
    ELSE IF action = ACTION_TYPES.FOLDER
    THEN [NoEffect EXCEPT !.emits = << [event |-> "createFolder", args |-> <<>>] >>]
    ELSE [NoEffect EXCEPT !.threw = TRUE]

\* actions whose folder entry navigates as well as emitting
actions_folderNavigates(action, projectId) ==
    IF action = ACTION_TYPES.WORKFLOW
    THEN [NoEffect EXCEPT !.pushes =
            << [name |-> VIEWS.NEW_WORKFLOW,
                query |-> [projectId |-> projectId,
                           parentFolderId |-> route.params.folderId]] >>]
    ELSE IF action = ACTION_TYPES.CREDENTIAL
    THEN [NoEffect EXCEPT !.pushes =
            << [name |-> VIEWS.PROJECTS_CREDENTIALS,
                params |-> [projectId |-> projectId, credentialId |-> "create"]] >>]
    ELSE IF action = ACTION_TYPES.FOLDER
    THEN [NoEffect EXCEPT !.emits = << [event |-> "createFolder", args |-> <<>>] >>,
                          !.pushes = << [name |-> VIEWS.PROJECTS_FOLDERS,
                                         params |-> [projectId |-> projectId]] >>]
    ELSE [NoEffect EXCEPT !.threw = TRUE]

\* actions[action](projectId); an action outside the table is not callable
actions(action, projectId) ==
    IF action = ACTION_TYPES.WORKFLOW
    THEN [NoEffect EXCEPT !.pushes =
            << [name |-> VIEWS.NEW_WORKFLOW,
                query |-> [projectId |-> projectId,
                           parentFolderId |-> route.params.folderId]] >>]
    ELSE IF action = ACTION_TYPES.CREDENTIAL
    THEN [NoEffect EXCEPT !.pushes =
            << [name |-> VIEWS.PROJECTS_CREDENTIALS,
                params |-> [projectId |-> projectId, credentialId |-> "create"]] >>]
    ELSE IF action = ACTION_TYPES.FOLDER
    THEN [NoEffect EXCEPT !.emits = << [event |-> "createFolder", args |-> <<>>] >>]
    ELSE [NoEffect EXCEPT !.threw = TRUE]

\* onSelectEffect running the action before testing homeProject
onSelectEffect_unguarded(action) ==
    actions(action, IF homeProject = Null THEN Undefined ELSE homeProject.id)

onSelectEffect(action) ==
    IF homeProject = Null THEN NoEffect ELSE actions(action, homeProject.id)

\* onSelect that also makes the home project the store's current project
onSelect_writesStore(action) ==
    /\ calls < MaxCalls
    /\ calls' = calls + 1
    /\ selected' = action
    /\ routerPushes' = onSelectEffect(action).pushes
    /\ emitted' = onSelectEffect(action).emits
    /\ thrown' = onSelectEffect(action).threw
    /\ currentProject' = homeProject
    /\ UNCHANGED <<personalProject, branchReadOnly, isFoldersFeatureEnabled, route>>

onSelect(action) ==
    /\ calls < MaxCalls
    /\ calls' = calls + 1
    /\ selected' = action
    /\ routerPushes' = onSelectEffect(action).pushes
    /\ emitted' = onSelectEffect(action).emits
    /\ thrown' = onSelectEffect(action).threw
    /\ UNCHANGED <<storeVars, route>>

\* what the controls can pass to onSelect: a menu value, or any other string
SelectArgs == ActionTypes \cup {"unknown"}

-----------------------------------------------------------------------------
\* The environment: stores and route change under the component

setCurrentProject(shape) ==
    /\ currentProject' = Project(shape[1], shape[2], shape[3], shape[4],
                                 IF currentProject = Null THEN {} ELSE currentProject.scopes)
    /\ UNCHANGED <<personalProject, branchReadOnly, isFoldersFeatureEnabled, route, outVars>>

clearCurrentProject ==
    /\ currentProject # Null
    /\ currentProject' = Null
    /\ UNCHANGED <<personalProject, branchReadOnly, isFoldersFeatureEnabled, route, outVars>>

setCurrentProjectScope(scope) ==
    /\ currentProject # Null
    /\ currentProject' =
         [currentProject EXCEPT !.scopes = IF scope \in @ THEN @ \ {scope} ELSE @ \cup {scope}]
    /\ UNCHANGED <<personalProject, branchReadOnly, isFoldersFeatureEnabled, route, outVars>>

setPersonalProject(project) ==
    /\ personalProject' = project
    /\ UNCHANGED <<currentProject, branchReadOnly, isFoldersFeatureEnabled, route, outVars>>

setBranchReadOnly ==
    /\ branchReadOnly' = ~branchReadOnly
    /\ UNCHANGED <<currentProject, personalProject, isFoldersFeatureEnabled, route, outVars>>

setFoldersFeature ==
    /\ isFoldersFeatureEnabled' = ~isFoldersFeatureEnabled
    /\ UNCHANGED <<currentProject, personalProject, branchReadOnly, route, outVars>>

routeChange(r) ==
    /\ route' = r
    /\ UNCHANGED <<storeVars, outVars>>

Next ==
    \/ \E a \in SelectArgs : onSelect(a)
    \/ \E shape \in ProjectShapes : setCurrentProject(shape)
    \/ clearCurrentProject
    \/ \E scope \in ScopeUniverse : setCurrentProjectScope(scope)
    \/ \E p \in PersonalProjects \cup {Null} : setPersonalProject(p)
    \/ setBranchReadOnly
    \/ setFoldersFeature
    \/ \E r \in Routes : routeChange(r)

Spec == Init /\ [][Next]_vars

-----------------------------------------------------------------------------
\* Vocabulary of the properties

\* the viewer's create permission on a resource: the scope is among the
\* scopes of the current project, else of the personal project
HasCreatePermission(resource) ==
    IF currentProject # Null
    THEN Scope(resource, "create") \in currentProject.scopes
    ELSE personalProject # Null /\ Scope(resource, "create") \in personalProject.scopes

HomeResolvable == currentProject # Null \/ personalProject # Null
HomeId == IF currentProject # Null THEN currentProject.id ELSE personalProject.id

\* this step is a call of onSelect
Selecting == calls' = calls + 1
CreationEffect == routerPushes # <<>> \/ emitted # <<>>
MenuValues == {menu[i].value : i \in 1..Len(menu)}
CreateFolderEvent == [event |-> "createFolder", args |-> <<>>]

-----------------------------------------------------------------------------
\* C1 (as stated): the presented action set (the workflow button and the items
\* of menu) never contains an action whose create permission the viewer lacks,
\* and contains no action at all while the branch is read-only.
C1_NeverPresentsForbiddenAction ==
    \A d \in presentedActions : ~branchReadOnly /\ HasCreatePermission(d.value)

\* C1 (amended): every presented action whose create permission the viewer
\* lacks, and every presented action while the branch is read-only, is
\* presented disabled; an enabled action is always a permitted one.
C1_ForbiddenActionIsDisabled ==
    \A d \in presentedActions :
        (branchReadOnly \/ ~HasCreatePermission(d.value)) => d.disabled

C1_Witness ==
    /\ ~branchReadOnly
    /\ \E d \in presentedActions : d.disabled /\ ~HasCreatePermission(d.value)
    /\ \E d \in presentedActions : ~d.disabled

\* C2 (as stated): while the branch is read-only no onSelect call produces a
\* navigation or a createFolder emission.
C2_NoCreationWhileReadOnly ==
    [][(Selecting /\ branchReadOnly) => (routerPushes' = <<>> /\ emitted' = <<>>)]_vars

\* C2 (amended): while the branch is read-only every control that invokes
\* onSelect is rendered disabled (the workflow button, the create-resource
\* control and each menu item) and the explaining tooltip is enabled, whatever
\* onSelect calls were made before.
C2_ControlsDisabledWhileReadOnly ==
    branchReadOnly =>
        /\ createWorkflowButton.disabled
        /\ createWorkflowButton.icon = "lock"
        /\ createResourceProps.disabled
        /\ \A i \in 1..Len(createResourceProps.actions) : createResourceProps.actions[i].disabled
        /\ ~tooltipProps.disabled

C2_Witness ==
    /\ branchReadOnly
    /\ headerActionsRendered
    /\ HasCreatePermission("workflow")
    /\ calls > 0
    /\ CreationEffect
    /\ createResourceProps.disabled

\* C3: the disabled flag of the workflow button, of the credential item and of
\* the folder item when present equals branchReadOnly OR NOT the create
\* permission of that resource in the home project's scopes, in every state
\* the store changes lead to.
C3_DisabledIsReadOnlyOrNoPermission ==
    /\ createWorkflowButton.value = ACTION_TYPES.WORKFLOW
    /\ createWorkflowButton.disabled = (branchReadOnly \/ ~HasCreatePermission("workflow"))
    /\ \A i \in 1..Len(menu) :
         /\ menu[i].value \in {ACTION_TYPES.CREDENTIAL, ACTION_TYPES.FOLDER}
         /\ menu[i].disabled = (branchReadOnly \/ ~HasCreatePermission(menu[i].value))

C3_Witness ==
    /\ currentProject = Null
    /\ personalProject # Null
    /\ ~branchReadOnly
    /\ ~createWorkflowButton.disabled
    /\ Len(menu) = 2
    /\ menu[1].disabled
    /\ calls > 0

\* C4: with neither a current nor a personal project, onSelect of workflow,
\* credential or folder navigates nowhere, emits nothing and raises no error.
C4_NoHomeProjectNoOp ==
    [][(Selecting /\ selected' \in ActionTypes /\ ~HomeResolvable)
        => (routerPushes' = <<>> /\ emitted' = <<>> /\ thrown' = FALSE)]_vars

C4_Witness ==
    /\ ~HomeResolvable
    /\ calls > 0
    /\ selected = ACTION_TYPES.FOLDER
    /\ routerPushes = <<>> /\ emitted = <<>> /\ ~thrown

\* C5: with a home project, onSelect('workflow') issues exactly one navigation,
\* to the new-workflow route, with query projectId = the current project's id
\* if one is set, else the personal project's, and parentFolderId = the
\* route's folderId parameter; it emits nothing.
C5_WorkflowNavigation ==
    [][(Selecting /\ selected' = ACTION_TYPES.WORKFLOW /\ HomeResolvable)
        => /\ routerPushes' = << [name |-> VIEWS.NEW_WORKFLOW,
                                  query |-> [projectId |-> HomeId,
                                             parentFolderId |-> route.params.folderId]] >>
           /\ emitted' = <<>>]_vars

C5_Witness ==
    /\ calls > 0
    /\ selected = ACTION_TYPES.WORKFLOW
    /\ currentProject # Null /\ personalProject # Null
    /\ Len(routerPushes) = 1
    /\ routerPushes[1].name = VIEWS.NEW_WORKFLOW
    /\ routerPushes[1].query = [projectId |-> "p1", parentFolderId |-> "f1"]

\* C6: with a home project, each onSelect of workflow, credential or folder
\* dispatches exactly one effect: workflow, one navigation to the new-workflow
\* route; credential, one navigation to the credentials route with params
\* projectId = home project id and credentialId = 'create'; folder, one
\* createFolder emission without payload and no navigation.
C6_ExactlyOneEffect ==
    [][(Selecting /\ selected' \in ActionTypes /\ HomeResolvable)
        => /\ Len(routerPushes') + Len(emitted') = 1
           /\ thrown' = FALSE
           /\ selected' = ACTION_TYPES.WORKFLOW =>
                /\ Len(routerPushes') = 1
                /\ routerPushes'[1].name = VIEWS.NEW_WORKFLOW
           /\ selected' = ACTION_TYPES.CREDENTIAL =>
                routerPushes' = << [name |-> VIEWS.PROJECTS_CREDENTIALS,
                                    params |-> [projectId |-> HomeId,
                                                credentialId |-> "create"]] >>
           /\ selected' = ACTION_TYPES.FOLDER =>
                /\ emitted' = << CreateFolderEvent >>
                /\ routerPushes' = <<>>]_vars

C6_Witness ==
    /\ calls = 2
    /\ selected = ACTION_TYPES.FOLDER
    /\ HomeResolvable
    /\ emitted = << CreateFolderEvent >>
    /\ routerPushes = <<>>

\* C7: showSettings is true exactly when the route has a projectId parameter,
\* the current project's scopes grant project update and the current project
\* is a Team project; it is false for a Personal project with update
\* permission and when no current project is set.
C7_ShowSettingsIff ==
    /\ showSettings <=>
         /\ route.params.projectId # Undefined
         /\ currentProject # Null
         /\ Scope("project", "update") \in currentProject.scopes
         /\ currentProject.type = "team"
    /\ currentProject = Null => ~showSettings
    /\ (currentProject # Null /\ currentProject.type = "personal") => ~showSettings

C7_Witness ==
    /\ showSettings
    /\ currentProject.type = "team"
    /\ route.params.projectId = "p1"

\* C8: headerIcon is the user icon for a Personal project, the project's own
\* icon or else the layer-group icon for a named project of another type,
\* and the home icon when no project is selected.
C8_HeaderIcon ==
    /\ (currentProject # Null /\ currentProject.type = "personal")
         => headerIcon = [type |-> "icon", value |-> "user"]
    /\ (currentProject # Null /\ currentProject.type # "personal"
          /\ currentProject.name # NoName)
         => headerIcon = (IF currentProject.icon = NoIcon
                          THEN [type |-> "icon", value |-> "layer-group"]
                          ELSE currentProject.icon)
    /\ currentProject = Null => headerIcon = [type |-> "icon", value |-> "home"]

C8_Witness ==
    /\ currentProject # Null
    /\ currentProject.type = "team"
    /\ currentProject.name # NoName
    /\ currentProject.icon = NoIcon
    /\ headerIcon = [type |-> "icon", value |-> "layer-group"]

\* C9: showFolders is true exactly when the folders feature flag is on and
\* the route is the project workflow list or the project folder list; the
\* folder action is an item of menu exactly when showFolders is true and the
\* credential action always is one.
C9_ShowFoldersIff ==
    /\ showFolders <=>
         /\ isFoldersFeatureEnabled
         /\ route.name = "ProjectsWorkflows" \/ route.name = "ProjectsFolders"
    /\ (ACTION_TYPES.FOLDER \in MenuValues) <=> showFolders
    /\ ACTION_TYPES.CREDENTIAL \in MenuValues

C9_Witness ==
    /\ showFolders
    /\ route.name = VIEWS.PROJECTS_FOLDERS
    /\ MenuValues = {ACTION_TYPES.CREDENTIAL, ACTION_TYPES.FOLDER}

\* C10: an onSelect call leaves the current project, the personal project,
\* their scopes, the branch read-only flag and the folders feature flag as
\* they were; it changes only the record of navigations and emissions.
C10_StoresUntouched ==
    [][Selecting => UNCHANGED <<currentProject, personalProject, branchReadOnly,
                               isFoldersFeatureEnabled>>]_vars

C10_Witness ==
    /\ calls = 2
    /\ CreationEffect
    /\ currentProject # Null
    /\ currentProject.scopes # {}
    /\ branchReadOnly
    /\ isFoldersFeatureEnabled

====
